---- MODULE Spec2Model ----
(***************************************************************************)
(* Model of the useDeriveState hook (src/src/index.ts).                    *)
(*                                                                         *)
(* One hook instance inside one component.  The parent owns the upstream   *)
(* value (parentState) and passes it as propsState on every render.  The   *)
(* hook keeps a record { propsId, value } in a useState slot, mints the    *)
(* token propsId with useMemo keyed on propsState, and returns             *)
(* [derivedState, setDerivedState].                                        *)
(*                                                                         *)
(* TLA+ equality on the encoded values is JavaScript's Object.is (the      *)
(* comparison of useMemo dependencies and of useState bail-out); the       *)
(* operator StrictNotEqual is JavaScript's !== (NaN !== NaN).              *)
(* Objects ({} tokens and state records) are numbered by allocation.       *)
(***************************************************************************)
EXTENDS Integers, Sequences, FiniteSets

\* ---------------------------------------------------------------- bounds
\* largest number used as an upstream or literal value
MaxVal == 1
\* objects ({} tokens and state records) allocated in one run
MaxAlloc == 5
\* setter calls issued between two consecutive renders
MaxCalls == 2

\* ---------------------------------------------------------------- values
\* T = number; the value NaN is encoded as -1
NaN == 0 - 1

\* T = object: two distinct instances with the same content, e.g. two
\* evaluations of the literal { a: 1 }
Objects == {10, 11}

\* the content of a value: structurally equal values have the same content
Content(v) == IF v \in Objects THEN 10 ELSE v

\* the numbers used, as upstream values and as literals passed to the setter
Numbers == (0 .. MaxVal) \cup {NaN}

\* the upstream values used
Values == Numbers \cup Objects

\* a SetStateAction<T>: a literal value, or one of two updater functions
\*   "inc"  : prev => prev + 1
\*   "keep" : prev => prev
SetStateActions ==
    [kind : {"value"}, v : Numbers] \cup [kind : {"inc", "keep"}, v : {0}]

\* the dependencies of useMemo before the first render: equal to no value
NoDeps == 0 - 2

\* no setter call
NoCall == [kind |-> "none", v |-> 0]

\* calling an updater function on a number
CallFn(kind, prev) ==
    IF kind = "inc" THEN (IF prev = NaN THEN NaN ELSE prev + 1) ELSE prev

\* JavaScript a !== b on numbers
StrictNotEqual(a, b) == a # b \/ a = NaN

VARIABLES
    mounted,        \* the component has rendered at least once
    parentState,    \* upstream value the parent passes at the next render
    propsState,     \* upstream value passed to the last render
    propsId,        \* token returned by useMemo in the last render
    state,          \* the useState slot: [id, propsId, value]
    queue,          \* pending updaters of the useState slot (closures)
    scheduled,      \* a render is pending because of the hook's own setState
    alternateLanes, \* the component's alternate fiber still carries the lanes
                    \* of the update the last render processed
    derivedState,   \* the value the last render returned
    nextId,         \* objects allocated so far
    \* ---- observation of the run (never read by the hook)
    calls,          \* setter calls issued since the last render
    lastCall,       \* the last setter call before the last render, if any
    lastCount,      \* number of setter calls the last render was preceded by
    prevPropsState, \* propsState of the render before the last one
    prevPropsId,    \* propsId of the render before the last one
    prevDerived,    \* derivedState of the render before the last one
    prevState,      \* useState slot as of the render before the last one
    renders,        \* 0 = not rendered, 1 = first render only, 2 = re-rendered
    setterUsed,     \* the setter was called at least once
    writtenAt,      \* propsState of the render the stored record was written in
    renderCall,     \* outcome of a setter call made while rendering, if any
    refState        \* what React's useState returns for the same calls

vars == << mounted, parentState, propsState, propsId, state, queue, scheduled,
           alternateLanes, derivedState, nextId, calls, lastCall, lastCount,
           prevPropsState, prevPropsId, prevDerived, prevState, renders,
           setterUsed, writtenAt, renderCall, refState >>

hookVars == << propsState, propsId, state, queue, scheduled, alternateLanes,
              derivedState >>

obsVars == << lastCall, lastCount, prevPropsState, prevPropsId, prevDerived,
              prevState, renders, writtenAt, renderCall >>

\* ------------------------------------------------------------ read path

\* faulty variant: the dependency array is empty, the token is minted once
useMemoNoDeps(prevDep, prevVal, dep, fresh) == prevVal

\* faulty variant: no dependency array, a token is minted on every render
useMemoAlways(prevDep, prevVal, dep, fresh) == fresh

\* faulty variant: the dependency is compared by content (deep equality)
useMemoDeepEqual(prevDep, prevVal, dep, fresh) ==
    IF Content(prevDep) = Content(dep) THEN prevVal ELSE fresh

\* faulty variant: the token is computed from the value, one token per
\* upstream value, so a value that comes back brings its old token back
useMemoByValue(prevDep, prevVal, dep, fresh) == 100 + dep

\* useMemo(() => ({}), [propsState]): the cached object is kept when the
\* dependency is Object.is-equal, a fresh one is made otherwise (on the first
\* render there is no previous dependency, prevDep = NoDeps)
useMemo(prevDep, prevVal, dep, fresh) ==
    IF prevDep = dep THEN prevVal ELSE fresh

\* faulty variant: the stored value is returned whatever its token
DerivedStateNoToken(st, id, props) == st.value

\* faulty variant: the comparison is inverted
DerivedStateInverted(st, id, props) ==
    IF st.propsId = id THEN props ELSE st.value

\* state.propsId === propsId ? state.value : propsState
DerivedState(st, id, props) ==
    IF st.propsId = id THEN st.value ELSE props

\* ----------------------------------------------------------- write path

\* value instanceof Function ? value(derivedState) : value
Resolve(value, derived, st) ==
    IF value.kind = "value" THEN value.v ELSE CallFn(value.kind, derived)

\* faulty variant: the new record keeps the token of the record it replaces,
\* { ...prev, value: newValue }
UpdaterKeepsToken(u, prev) ==
    IF StrictNotEqual(u.derivedState, u.newValue)
    THEN [id |-> u.obj, propsId |-> prev.propsId, value |-> u.newValue]
    ELSE prev

\* prev => derivedState !== newValue ? { propsId, value: newValue } : prev
\* u is the closure: the derivedState, newValue and propsId it captured, and
\* the identity of the object literal it creates when it runs
Updater(u, prev) ==
    IF StrictNotEqual(u.derivedState, u.newValue)
    THEN [id |-> u.obj, propsId |-> u.propsId, value |-> u.newValue]
    ELSE prev

\* React runs the queued updaters in order when the component renders
RECURSIVE ProcessQueue(_, _)
ProcessQueue(q, st) ==
    IF q = << >> THEN st ELSE ProcessQueue(Tail(q), Updater(Head(q), st))

\* React's useState for the same calls: a literal replaces the state, an
\* updater function is applied to the state the previous calls produced
RECURSIVE UseStateReduce(_, _)
UseStateReduce(cs, st) ==
    IF cs = << >> THEN st
    ELSE UseStateReduce(Tail(cs),
            IF Head(cs).kind = "value" THEN Head(cs).v
            ELSE CallFn(Head(cs).kind, st))

\* ------------------------------------------------------------- actions

InitHook ==
    /\ mounted = FALSE
    /\ propsState = 0
    /\ propsId = 0
    /\ state = [id |-> 0, propsId |-> 0, value |-> 0]
    /\ queue = << >>
    /\ scheduled = FALSE
    /\ alternateLanes = FALSE
    /\ derivedState = 0
    /\ nextId = 0
    /\ calls = << >>
    /\ lastCall = NoCall
    /\ lastCount = 0
    /\ prevPropsState = 0
    /\ prevPropsId = 0
    /\ prevDerived = 0
    /\ prevState = [id |-> 0, propsId |-> 0, value |-> 0]
    /\ renders = 0
    /\ setterUsed = FALSE
    /\ writtenAt = 0
    /\ renderCall = "none"
    /\ refState = 0

\* the parent's state is a number (test: useState(0))
Init == parentState \in Numbers /\ InitHook

\* the parent's state is an object
InitObjects == parentState \in Objects /\ InitHook

\* first render of useDeriveState(parentState): useMemo makes the first
\* token, useState stores the initial record { propsId, value: propsState }
Mount ==
    /\ ~mounted
    /\ renderCall = "none"
    /\ mounted' = TRUE
    /\ propsState' = parentState
    /\ propsId' = useMemo(NoDeps, 0, parentState, nextId + 1)
    /\ state' = [id |-> nextId + 2, propsId |-> propsId',
                 value |-> parentState]
    /\ derivedState' = DerivedState(state', propsId', propsState')
    /\ nextId' = nextId + 2
    /\ renders' = 1
    /\ writtenAt' = parentState
    /\ refState' = parentState
    /\ UNCHANGED << parentState, queue, scheduled, alternateLanes, calls,
                    lastCall, lastCount,
                    prevPropsState, prevPropsId, prevDerived, prevState,
                    setterUsed, renderCall >>

\* the parent changes the upstream value (test: act(() => setState(1)))
SetParentState(v) ==
    /\ mounted
    /\ v # parentState
    /\ parentState' = v
    /\ UNCHANGED << mounted, hookVars, nextId, calls, obsVars, setterUsed,
                    refState >>

\* faulty variant: the setter also writes the upstream value
setDerivedStateWritesUpstream(value) ==
    /\ mounted
    /\ Len(calls) < MaxCalls
    /\ value.kind = "inc" => derivedState < MaxVal
    /\ StrictNotEqual(derivedState, Resolve(value, derivedState, state))
          => nextId < MaxAlloc
    /\ LET newValue == Resolve(value, derivedState, state)
           u == [derivedState |-> derivedState, newValue |-> newValue,
                 propsId |-> propsId, obj |-> nextId + 1]
           eager == Updater(u, state)
       IN  /\ IF queue = << >> /\ ~alternateLanes /\ eager = state
              THEN UNCHANGED << queue, scheduled >>
              ELSE /\ queue' = Append(queue, u)
                   /\ scheduled' = TRUE
           /\ parentState' = newValue
           /\ nextId' = IF StrictNotEqual(derivedState, newValue)
                         THEN nextId + 1 ELSE nextId
    /\ calls' = Append(calls, value)
    /\ setterUsed' = TRUE
    /\ UNCHANGED << mounted, propsState, propsId, state, alternateLanes,
                    derivedState, obsVars, refState >>

\* setDerivedState(value), called from an event handler or an effect.  The
\* useEffectEvent callback reads derivedState and propsId of the last
\* committed render.  setState(updater): when neither the component's fiber
\* nor its alternate has pending lanes (nothing is queued, and the last
\* render left none behind) React runs the updater at once and returns
\* without scheduling a render when the result is the current state object;
\* otherwise the updater is queued and a render is scheduled.
setDerivedState(value) ==
    /\ mounted
    /\ Len(calls) < MaxCalls
    /\ value.kind = "inc" => derivedState < MaxVal
    /\ StrictNotEqual(derivedState, Resolve(value, derivedState, state))
          => nextId < MaxAlloc
    /\ LET newValue == Resolve(value, derivedState, state)
           u == [derivedState |-> derivedState, newValue |-> newValue,
                 propsId |-> propsId, obj |-> nextId + 1]
           eager == Updater(u, state)
       IN  /\ IF queue = << >> /\ ~alternateLanes /\ eager = state
              THEN UNCHANGED << queue, scheduled >>
              ELSE /\ queue' = Append(queue, u)
                   /\ scheduled' = TRUE
           /\ nextId' = IF StrictNotEqual(derivedState, newValue)
                         THEN nextId + 1 ELSE nextId
    /\ calls' = Append(calls, value)
    /\ setterUsed' = TRUE
    /\ UNCHANGED << mounted, parentState, propsState, propsId, state,
                    alternateLanes, derivedState, obsVars, refState >>

\* faulty variant: the setter is a plain callback (useCallback), a call made
\* while rendering runs setState
setDerivedStateInRenderRuns(value) ==
    /\ mounted
    /\ calls = << >>
    /\ queue = << >>
    /\ parentState = propsState
    /\ nextId < MaxAlloc
    /\ Len(queue) < MaxCalls
    /\ LET u == [derivedState |-> derivedState,
                 newValue |-> Resolve(value, derivedState, state),
                 propsId |-> propsId, obj |-> nextId + 1]
       IN  queue' = Append(queue, u)
    /\ scheduled' = TRUE
    /\ nextId' = nextId + 1
    /\ renderCall' = "ran"
    /\ UNCHANGED << mounted, parentState, propsState, propsId, state,
                    alternateLanes, derivedState, calls, lastCall, lastCount, prevPropsState,
                    prevPropsId, prevDerived, prevState, renders, writtenAt,
                    setterUsed, refState >>

\* the component calls setDerivedState(value) in its render body, after
\* useDeriveState has returned (nothing is queued then, and the upstream value
\* is the one being rendered).  The function useEffectEvent returns throws
\* when it is called while rendering, before the wrapped callback runs; React
\* abandons the render and unmounts the component.
setDerivedStateInRender(value) ==
    /\ mounted
    /\ calls = << >>
    /\ queue = << >>
    /\ parentState = propsState
    /\ mounted' = FALSE
    /\ renderCall' = "threw"
    /\ UNCHANGED << parentState, propsState, propsId, state, queue, scheduled,
                    alternateLanes, derivedState, nextId, calls, lastCall, lastCount,
                    prevPropsState, prevPropsId, prevDerived, prevState,
                    renders, writtenAt, setterUsed, refState >>

\* faulty variant: the read path repairs a stale record by calling setState, the
\* "adjust the state while rendering" pattern
useDeriveStateCascading(parentRenders) ==
    /\ mounted
    /\ parentRenders \/ queue # << >>
    /\ parentState # propsState => parentRenders
    /\ parentState # propsState => nextId < MaxAlloc
    /\ propsState' = parentState
    /\ propsId' = useMemo(propsState, propsId, parentState, nextId + 1)
    /\ nextId' = IF propsId' = propsId THEN nextId ELSE nextId + 1
    /\ state' = ProcessQueue(queue, state)
    /\ derivedState' = DerivedState(state', propsId', propsState')
    /\ queue' = << >>
    /\ scheduled' = (state'.propsId # propsId')
    /\ alternateLanes' = (queue # << >> /\ (parentRenders \/ state' # state))
    /\ calls' = << >>
    /\ lastCall' = IF calls = << >> THEN NoCall ELSE calls[Len(calls)]
    /\ lastCount' = Len(calls)
    /\ prevPropsState' = propsState
    /\ prevPropsId' = propsId
    /\ prevDerived' = derivedState
    /\ prevState' = state
    /\ renders' = 2
    /\ writtenAt' = IF state' # state THEN propsState ELSE writtenAt
    /\ refState' = IF parentState = propsState
                   THEN UseStateReduce(calls, refState)
                   ELSE parentState
    /\ UNCHANGED << mounted, parentState, setterUsed, renderCall >>

\* a re-render of useDeriveState(parentState): because the parent
\* re-rendered (parentRenders; always so when the upstream value changed), or
\* for the hook's own setState alone.  The hook is used in a child component
\* of the one that owns the upstream value (README, Usage).
\* The alternate fiber keeps the lanes of the processed updates unless React
\* bails out of the render (no new props, state object unchanged).
useDeriveState(parentRenders) ==
    /\ mounted
    /\ parentRenders \/ queue # << >>
    /\ parentState # propsState => parentRenders
    /\ parentState # propsState => nextId < MaxAlloc
    /\ propsState' = parentState
    /\ propsId' = useMemo(propsState, propsId, parentState, nextId + 1)
    /\ nextId' = IF propsId' = propsId THEN nextId ELSE nextId + 1
    /\ state' = ProcessQueue(queue, state)
    /\ derivedState' = DerivedState(state', propsId', propsState')
    /\ queue' = << >>
    /\ scheduled' = FALSE
    /\ alternateLanes' = (queue # << >> /\ (parentRenders \/ state' # state))
    /\ calls' = << >>
    /\ lastCall' = IF calls = << >> THEN NoCall ELSE calls[Len(calls)]
    /\ lastCount' = Len(calls)
    /\ prevPropsState' = propsState
    /\ prevPropsId' = propsId
    /\ prevDerived' = derivedState
    /\ prevState' = state
    /\ renders' = 2
    /\ writtenAt' = IF state' # state THEN propsState ELSE writtenAt
    /\ refState' = IF parentState = propsState
                   THEN UseStateReduce(calls, refState)
                   ELSE parentState
    /\ UNCHANGED << mounted, parentState, setterUsed, renderCall >>

SetParent == \E v \in Numbers : SetParentState(v)

SetParentObject == \E v \in Objects : SetParentState(v)

SetDerived == \E value \in SetStateActions : setDerivedState(value)

Render == \E parentRenders \in BOOLEAN : useDeriveState(parentRenders)

SetDerivedInRender ==
    \E value \in SetStateActions : setDerivedStateInRender(value)

Next ==
    \/ Mount
    \/ SetParent
    \/ SetDerived
    \/ SetDerivedInRender
    \/ Render

Spec == Init /\ [][Next]_vars

\* the same component with an object as upstream value
NextObjects ==
    \/ Mount
    \/ SetParentObject
    \/ SetDerived
    \/ Render

SpecObjects == InitObjects /\ [][NextObjects]_vars

TypeOK ==
    /\ mounted \in BOOLEAN
    /\ parentState \in Values
    /\ derivedState \in Values
    /\ Len(queue) <= MaxCalls
    /\ nextId <= MaxAlloc + 1

\* ------------------------------------------------------------- claims

Last(s) == s[Len(s)]

\* the step is one call of the setter
SetterStep == Len(calls') = Len(calls) + 1

\* C1: whenever the hook has rendered, the value it returned is the stored
\* record's value if the record's token is the current token, and the
\* upstream value passed to that render otherwise.
C1_DerivedInvariant ==
    mounted =>
        /\ state.propsId = propsId => derivedState = state.value
        /\ state.propsId # propsId => derivedState = propsState

\* a re-render returned a local override held by a record with the current
\* token
C1_Witness ==
    /\ renders = 2
    /\ state.propsId = propsId
    /\ state.value # propsState
    /\ derivedState = state.value

\* C2: the first render that receives a changed upstream value returns that
\* value, whatever setter calls came before.
C2_UpstreamChangeWins ==
    (renders = 2 /\ propsState # prevPropsState) => derivedState = propsState

\* an override w was visible, the upstream value changed to a value other
\* than w, and the render returned the new upstream value
C2_Witness ==
    /\ renders = 2
    /\ propsState # prevPropsState
    /\ prevDerived # prevPropsState
    /\ prevDerived # propsState
    /\ state.value = prevDerived
    /\ derivedState = propsState

\* C3: when the last setter call before a render was setDerived(w) with a
\* literal w and upstream did not change, the render returns w; a following
\* render with no setter call and the same upstream returns the same value.
C3_LiteralSetWins ==
    /\ (renders = 2 /\ propsState = prevPropsState /\ lastCall.kind = "value")
       => derivedState = lastCall.v
    /\ (renders = 2 /\ propsState = prevPropsState /\ lastCount = 0)
       => derivedState = prevDerived

\* C4: as long as the setter was never called, every render, the first one
\* included, returns the upstream value it was given.
C4_TracksUpstream ==
    (mounted /\ ~setterUsed) => derivedState = propsState

\* a re-render received a changed upstream value, no setter call ever made
C4_Witness ==
    /\ renders = 2
    /\ ~setterUsed
    /\ propsState # prevPropsState
    /\ derivedState = propsState

\* C5: a render leaves no update queued and no render scheduled by the hook,
\* and a render that no setter call preceded leaves the record as it was.
C5_RenderSchedulesNothing ==
    /\ calls = << >> => (~scheduled /\ queue = << >>)
    /\ (renders = 2 /\ lastCount = 0) => state = prevState

\* the render that observed a changed upstream value left the record stale
\* and untouched, with nothing pending
C5_Witness ==
    /\ renders = 2
    /\ propsState # prevPropsState
    /\ lastCount = 0
    /\ calls = << >>
    /\ state = prevState
    /\ state.propsId # propsId
    /\ ~scheduled

\* C6: every render returns what React's useState, initialised with the
\* upstream value and given the same setter calls, returns.
C6_SameAsUseState ==
    mounted => derivedState = refState

\* C7: when the setter was called with a function f (a later call before the
\* render supersedes an earlier one, so f is the last call before the render)
\* and upstream did not change, the render returns f applied to the value the
\* earlier render returned.
C7_FunctionalUpdate ==
    (renders = 2 /\ propsState = prevPropsState
       /\ lastCall.kind \in {"inc", "keep"})
    => derivedState = CallFn(lastCall.kind, prevDerived)

\* C8: a setter call whose resolved value is the current derived value leaves
\* the record the next render will store unchanged and schedules no render.
C8_EqualSetIsNoOp ==
    [][ (SetterStep /\
           (IF Last(calls').kind = "value" THEN Last(calls').v
            ELSE CallFn(Last(calls').kind, derivedState)) = derivedState)
        => /\ ProcessQueue(queue', state) = ProcessQueue(queue, state)
           /\ scheduled' = scheduled ]_vars

\* C9: a setter call changes neither the upstream value the next render
\* will receive, nor the one the last render received, nor the token.
C9_SetterLeavesUpstream ==
    [][ SetterStep => /\ parentState' = parentState
                      /\ propsState' = propsState
                      /\ propsId' = propsId ]_vars

\* setDerived(w) with w other than the upstream value has been called and
\* has scheduled a render
C9_Witness ==
    /\ Len(calls) = 1
    /\ calls[1].kind = "value"
    /\ calls[1].v # parentState
    /\ parentState = propsState
    /\ scheduled

\* C10: from one render to the next the token changes exactly when the
\* upstream value passed is not the one passed before.
C10_TokenTracksUpstream ==
    renders = 2 => (propsId # prevPropsId <=> propsState # prevPropsState)

\* a re-render caused by the setter, same upstream value, same token
C10_Witness ==
    /\ renders = 2
    /\ lastCount > 0
    /\ propsState = prevPropsState
    /\ propsId = prevPropsId
    /\ derivedState # prevDerived

\* the value a setter call issued now resolves to
Resolved(c) ==
    IF c.kind = "value" THEN c.v ELSE CallFn(c.kind, derivedState)

\* the step is a render that setter calls preceded
RenderAfterCalls == calls # << >> /\ calls' = << >>

\* C11 as stated: when the record was stale, upstream stayed the same and the
\* setter was called, the render that processes the call leaves the record
\* with the current token.
C11_NextSetSyncs ==
    (renders = 2 /\ prevState.propsId # prevPropsId /\ lastCount > 0
       /\ propsState = prevPropsState)
    => state.propsId = propsId

\* C11 amended: when the record is stale and upstream stays the same, setter
\* calls of which one resolves to a value !== the current derived value leave
\* the record with the current token once processed; setter calls that all
\* resolve to the current derived value leave the record as it was, stale.
C11_DifferingSetSyncs ==
    [][ (RenderAfterCalls /\ state.propsId # propsId
           /\ parentState = propsState)
        => IF \E i \in 1 .. Len(calls) :
                 StrictNotEqual(derivedState, Resolved(calls[i]))
           THEN state'.propsId = propsId' /\ derivedState' = state'.value
           ELSE state' = state /\ state'.propsId # propsId' ]_vars

\* a stale record was replaced by a setter call and carries the current token
C11_Witness ==
    /\ renders = 2
    /\ prevState.propsId # prevPropsId
    /\ lastCount > 0
    /\ propsState = prevPropsState
    /\ state # prevState
    /\ state.propsId = propsId
    /\ derivedState = state.value

\* C12: the record changes only when a render processes setter calls of which
\* one resolved to a value other than the derived value, and the new record
\* holds the token of the render the setter observed and that call's value.
C12_ReplacedOnlyByDifferingSet ==
    [][ (mounted /\ state' # state)
        => /\ RenderAfterCalls
           /\ \E i \in 1 .. Len(calls) :
                 /\ Resolved(calls[i]) # derivedState
                 /\ state'.value = Resolved(calls[i])
           /\ state'.propsId = propsId
           /\ state'.id # state.id ]_vars

\* C16: when the upstream value changed and the setter was called between
\* the same two renders, the later render returns the new upstream value, and
\* a record written by those calls carries the token of the earlier render,
\* not the current one.
C16_SetWithUpstreamChange ==
    (renders = 2 /\ propsState # prevPropsState /\ lastCount > 0)
    => /\ derivedState = propsState
       /\ state.propsId # propsId
       /\ state # prevState => state.propsId = prevPropsId

\* setDerived(w) and an upstream change to a value other than w came between
\* two renders: the record holds w under the earlier token, the render
\* returned the new upstream value
C16_Witness ==
    /\ renders = 2
    /\ propsState # prevPropsState
    /\ lastCall.kind = "value"
    /\ lastCall.v # propsState
    /\ lastCall.v # prevDerived
    /\ state # prevState
    /\ state.value = lastCall.v
    /\ state.propsId = prevPropsId
    /\ derivedState = propsState

\* C15: a record that is stale stays stale until the setter replaces it,
\* whatever upstream values follow, and every render in between returns the
\* upstream value; a token that changes is an object allocated just then.
C15_StaleStaysStale ==
    [][ /\ (mounted /\ state.propsId # propsId /\ state' = state)
           => (state'.propsId # propsId' /\ derivedState' = propsState')
        /\ (mounted /\ propsId' # propsId) => propsId' > nextId ]_vars

\* upstream is again the value it had when the override was set (v, v2, v):
\* the record still holds the override, with a token that is not current
C15_Witness ==
    /\ renders = 2
    /\ setterUsed
    /\ writtenAt = propsState
    /\ state.value # propsState
    /\ state.propsId # propsId
    /\ calls = << >>
    /\ derivedState = propsState

\* C13: a render that receives an upstream value with the content of the
\* previous one but another identity returns the new instance, and the stored
\* record is stale in that render.
C13_IdentityNotContent ==
    (renders = 2 /\ propsState # prevPropsState
       /\ Content(propsState) = Content(prevPropsState))
    => (derivedState = propsState /\ state.propsId # propsId)

\* an override was visible, upstream became a structurally equal but distinct
\* instance, and the render returned that instance
C13_Witness ==
    /\ renders = 2
    /\ propsState # prevPropsState
    /\ Content(propsState) = Content(prevPropsState)
    /\ prevDerived # prevPropsState
    /\ Content(prevDerived) # Content(propsState)
    /\ state.value = prevDerived
    /\ derivedState = propsState

\* C14: a setter call made while rendering throws and changes neither the
\* record, nor the queued updates, nor what is scheduled, nor the derived
\* value; an update is queued only by a setter call made outside rendering.
C14_RenderCallRejected ==
    [][ /\ (renderCall = "none" /\ renderCall' # "none")
           => /\ renderCall' = "threw"
              /\ state' = state
              /\ queue' = queue
              /\ scheduled' = scheduled
              /\ derivedState' = derivedState
        /\ Len(queue') > Len(queue)
           => (SetterStep /\ renderCall' = "none") ]_vars

\* the setter had stored an override from an event handler; a later call
\* made while rendering threw and the override is still the stored record
C14_Witness ==
    /\ renderCall = "threw"
    /\ setterUsed
    /\ renders = 2
    /\ state.propsId = propsId
    /\ state.value # propsState
    /\ derivedState = state.value

====
